---------------------------- MODULE Spec2Model ----------------------------
(* Model of app.py, the Streamlit front end of the stock prediction app.   *)
(* One run of the script top to bottom is one render.  The render is a     *)
(* sequential process; pc is its position between two external calls.      *)
(* The backend, the market-data provider and the user are the environment. *)
EXTENDS Integers, Sequences, FiniteSets, TLC

(***************************************************************************)
(* Bounds of the model.                                                    *)
(***************************************************************************)
MaxHist == 2        \* longest `dates` / `close` list a response carries
MaxRows == 1        \* most rows the provider returns for a one-day lookup
MaxPred == 8        \* longest `predictions` list a response carries

(***************************************************************************)
(* Program constants.                                                      *)
(***************************************************************************)
PredDays == 7       \* range(1, 8): the number of prediction dates built

(***************************************************************************)
(* Python values.  None and an optional value are the sequences <<>> and   *)
(* <<v>>; a JSON object is a record whose domain is the set of its keys,   *)
(* the empty object {} being the record with no field.                     *)
(***************************************************************************)
None == <<>>
Some(v) == <<v>>
EmptyDict == [k \in {} |-> k]

\* bool(x) of an optional JSON object: None and {} are falsy
Truthy(opt) == opt # None /\ DOMAIN opt[1] # {}

\* d.get(key) of a JSON object whose values are lists: [] stands for a
\* missing key as well, both being falsy where the script uses .get
Get(d, key) == IF key \in DOMAIN d THEN d[key] ELSE <<>>

Elems(s) == {s[i] : i \in 1..Len(s)}

(***************************************************************************)
(* Dates.  A date string "YYYY-MM-DD" is the triple <<y, m, d>>; a pandas  *)
(* Timestamp at midnight is the number of days since 1970-01-01.           *)
(***************************************************************************)
IsLeap(y) == (y % 4 = 0 /\ y % 100 # 0) \/ y % 400 = 0

DaysInMonth(y, m) ==
    IF m = 2 THEN (IF IsLeap(y) THEN 29 ELSE 28)
    ELSE IF m \in {4, 6, 9, 11} THEN 30 ELSE 31

IsValidDate(s) ==
    /\ s[2] \in 1..12
    /\ s[3] \in 1..DaysInMonth(s[1], s[2])

\* pd.to_datetime of one ISO date string: days since the epoch
to_datetime(s) ==
    LET y   == IF s[2] <= 2 THEN s[1] - 1 ELSE s[1]
        era == y \div 400
        yoe == y - era * 400
        mp  == IF s[2] > 2 THEN s[2] - 3 ELSE s[2] + 9
        doy == (153 * mp + 2) \div 5 + s[3] - 1
        doe == yoe * 365 + yoe \div 4 - yoe \div 100 + doy
    IN  era * 146097 + doe - 719468

\* the calendar date a Timestamp shows
TimestampDate(z0) ==
    LET z   == z0 + 719468
        era == z \div 146097
        doe == z - era * 146097
        yoe == (doe - doe \div 1460 + doe \div 36524 - doe \div 146096) \div 365
        doy == doe - (365 * yoe + yoe \div 4 - yoe \div 100)
        mp  == (5 * doy + 2) \div 153
        d   == doy - (153 * mp + 2) \div 5 + 1
        m   == IF mp < 10 THEN mp + 3 ELSE mp - 9
        y   == yoe + era * 400
    IN  <<IF m <= 2 THEN y + 1 ELSE y, m, d>>

\* last_date + timedelta(days=i)
PlusDays(ts, i) == ts + i

SeqMax(s) == CHOOSE x \in Elems(s) : \A y \in Elems(s) : y <= x


(***************************************************************************)
(* The environment: what the user can type, and what the backend and the   *)
(* market-data provider can answer.                                        *)
(***************************************************************************)
Candidates == {"", "AAPL", "MSFT"}

DateStrings == {<<2024, 1, 1>>, <<2024, 1, 2>>, <<2024, 2, 27>>, <<2023, 12, 29>>}
BadDate == <<2024, 2, 30>>
CloseBases == {100, 90}
PredBases == {103, 50}

\* the closes of a response rise by 2 a day from a base; its dates come in
\* any order
WellFormedHist ==
    UNION {{[dates |-> ds, close |-> [i \in 1..n |-> b + 2 * (i - 1)]] :
                ds \in [1..n -> DateStrings], b \in CloseBases} : n \in 1..MaxHist}

MalformedHist ==
    { EmptyDict,
      [dates |-> <<>>, close |-> <<>>],
      [close |-> <<100>>],
      [dates |-> << <<2024, 1, 1>> >>],
      [dates |-> << <<2024, 1, 1>>, <<2024, 1, 2>> >>, close |-> <<100>>],
      [dates |-> <<BadDate>>, close |-> <<100>>] }

HistBodies == WellFormedHist \cup MalformedHist

PredBodies ==
    {EmptyDict} \cup
    {[predictions |-> [i \in 1..n |-> b + i - 1]] : n \in 0..MaxPred, b \in PredBases}

AddBodies == {[message |-> "Ticker added"], EmptyDict}

\* the outcome of one HTTP exchange: a RequestException (no connection,
\* timeout, raise_for_status on a non-2xx status) or the decoded body
Failed == [ok |-> FALSE]
Answer(b) == [ok |-> TRUE, body |-> b]

\* the outcome of yf.Ticker(t).history(period="1d")
ProviderOutcomes ==
    {[raised |-> TRUE, rows |-> 0]} \cup {[raised |-> FALSE, rows |-> n] : n \in 0..MaxRows}

(***************************************************************************)
(* The functions of app.py, as operators on the outcome of their call.     *)
(***************************************************************************)
\* is_valid_ticker with the exception taken for a valid answer
is_valid_ticker_raise_true(outcome) == IF outcome.raised THEN TRUE ELSE outcome.rows > 0

\* is_valid_ticker: not hist.empty, False on any exception
is_valid_ticker(outcome) == IF outcome.raised THEN FALSE ELSE outcome.rows > 0

\* fetch_tickers that swallows the failure without reporting it
fetch_tickers_silent(resp) ==
    [value |-> IF resp.ok THEN resp.body ELSE <<>>, error |-> {}]

\* fetch_tickers: the decoded list, or [] with an error shown
fetch_tickers(resp) ==
    IF resp.ok THEN [value |-> resp.body, error |-> {}]
    ELSE [value |-> <<>>, error |-> {"Error fetching tickers"}]

\* fetch_historical_data: the decoded body, or None with an error shown
fetch_historical_data(resp) ==
    IF resp.ok THEN [value |-> Some(resp.body), error |-> {}]
    ELSE [value |-> None, error |-> {"Error fetching historical data"}]

\* fetch_predictions: the decoded body, or None with an error shown
fetch_predictions(resp) ==
    IF resp.ok THEN [value |-> Some(resp.body), error |-> {}]
    ELSE [value |-> None, error |-> {"Error fetching predictions"}]

\* add_new_ticker that reports an invalid ticker but goes on to post it
InvalidGuard_no_return(v) == FALSE

\* add_new_ticker, first half: `if not is_valid_ticker(ticker)`
InvalidGuard(v) == ~v

\* add_new_ticker, second half: the decoded body, or None with an error shown
add_new_ticker_post(resp) ==
    IF resp.ok THEN [value |-> Some(resp.body), error |-> {}]
    ELSE [value |-> None, error |-> {"Error adding ticker"}]

\* `if add_button and new_ticker`
AddGuard(button, text) == button /\ text # ""

\* the main block entered whatever the selection
SelectedGuard_always(sel) == TRUE

\* `if st.session_state["selected_ticker"]`
SelectedGuard(sel) == sel # None /\ sel[1] # ""

\* the historical guard without its .get("dates") half
HistGuard_no_dates_check(hd) == Truthy(hd)

\* `if historical_data and historical_data.get("dates")`
HistGuard(hd) == Truthy(hd) /\ Get(hd[1], "dates") # <<>>

\* the prediction guard as `is not None`
PredGuard_not_none(pd) == pd # None

\* `if predictions_data and predictions_data.get("predictions")`
PredGuard(pd) == Truthy(pd) /\ Get(pd[1], "predictions") # <<>>

\* pd.DataFrame({"Date": dates, "Close": close})
DataFrame(dates, close) ==
    [i \in 1..Len(dates) |-> [Date |-> dates[i], Close |-> close[i]]]

\* the exception lines 128-131 raise on a body that passed HistGuard
HistBuildError(body) ==
    IF "dates" \notin DOMAIN body THEN "KeyError"
    ELSE IF \E i \in 1..Len(body.dates) : ~IsValidDate(body.dates[i]) THEN "DateParseError"
    ELSE IF "close" \notin DOMAIN body THEN "KeyError"
    ELSE IF Len(body.close) # Len(body.dates) THEN "ValueError"
    ELSE "none"

\* lines 128-131: df_historical
BuildHistorical(body) ==
    DataFrame([i \in 1..Len(body.dates) |-> to_datetime(body.dates[i])], body.close)

\* line 139: df_historical["Date"].max()
LastDate(df) == SeqMax([i \in 1..Len(df) |-> df[i].Date])

\* the prediction dates built with range(0, 7)
prediction_dates_from_zero(last_date) == [i \in 1..PredDays |-> PlusDays(last_date, i - 1)]

\* line 140: [last_date + timedelta(days=i) for i in range(1, 8)]
prediction_dates(last_date) == [i \in 1..PredDays |-> PlusDays(last_date, i)]

\* the exception lines 137-141 raise: seven dates against len(predictions) values
PredBuildError(body) ==
    IF "predictions" \notin DOMAIN body THEN "KeyError"
    ELSE IF Len(body.predictions) # PredDays THEN "ValueError"
    ELSE "none"

\* lines 137-143: df_combined
BuildCombined(df, predictions) ==
    df \o DataFrame(prediction_dates(LastDate(df)), predictions)

\* the backend's POST /add: an accepted ticker joins the stored list once
BackendAdd(stored, t) == IF t \in Elems(stored) THEN stored ELSE Append(stored, t)

(***************************************************************************)
(* State.                                                                  *)
(***************************************************************************)
VARIABLES
    backend_tickers,   \* the ticker list the backend stores
    selected_ticker,   \* st.session_state["selected_ticker"]
    all_tickers,       \* st.session_state["all_tickers"]
    ticker_added,      \* st.session_state["ticker_added"]
    initial_load,      \* st.session_state["initial_load"]
    new_ticker,        \* the text of the "Enter New Ticker" field
    add_button,        \* whether this run was started by "Add Ticker"
    pc,                \* where the running script is; "idle" between runs
    hist,              \* the rows yfinance's history() returned in this run, if it did
    valid,             \* what is_valid_ticker returned in this run, if called
    add_response,      \* what add_new_ticker returned in this run
    historical_data,   \* what fetch_historical_data returned in this run
    df_historical,     \* the historical frame, once built
    predictions_data,  \* what fetch_predictions returned in this run
    chart,             \* the frame handed to st.plotly_chart, if any
    messages,          \* the st.error / st.warning / st.success texts shown
    calls,             \* the external calls made since the user's last action
    exception          \* the exception that ended this run, or "none"

session == <<selected_ticker, all_tickers, ticker_added, initial_load>>
widgets == <<new_ticker, add_button>>
locals  == <<hist, valid, add_response, historical_data, df_historical, predictions_data, chart>>
vars == <<backend_tickers, session, widgets, pc, locals, messages, calls, exception>>

\* one external call: what was asked, whether it succeeded, what the
\* calling function returned
Call(op, arg, ok, ret) == [op |-> op, arg |-> arg, ok |-> ok, ret |-> ret]

\* f"{ticker}" of the selected ticker
Str(sel) == IF sel = None THEN "None" ELSE sel[1]

FreshLocals ==
    /\ hist' = None
    /\ valid' = None
    /\ add_response' = None
    /\ historical_data' = None
    /\ df_historical' = None
    /\ predictions_data' = None
    /\ chart' = None
    /\ messages' = {}
    /\ exception' = "none"

\* lines 80-87: a new session, its first run about to reach the sidebar
Init ==
    /\ backend_tickers = <<>>
    /\ selected_ticker = None
    /\ all_tickers = <<>>
    /\ ticker_added = FALSE
    /\ initial_load = TRUE
    /\ new_ticker = ""
    /\ add_button = FALSE
    /\ pc = "sidebar"
    /\ hist = None
    /\ valid = None
    /\ add_response = None
    /\ historical_data = None
    /\ df_historical = None
    /\ predictions_data = None
    /\ chart = None
    /\ messages = {}
    /\ calls = <<>>
    /\ exception = "none"

\* the user changes a widget or clicks the button: the script runs again
Interact ==
    /\ pc = "idle"
    /\ new_ticker' \in Candidates
    /\ add_button' \in BOOLEAN
    /\ pc' = "sidebar"
    /\ FreshLocals
    /\ calls' = <<>>
    /\ UNCHANGED <<backend_tickers, session>>

\* the selection without line 99: an empty list leaves the old selection
SelectTicker_keep_stale(tickers, sel) ==
    IF tickers = <<>> THEN sel = selected_ticker
    ELSE \E t \in Elems(tickers) : sel = Some(t)

\* lines 97-105: the selection after the list was fetched; the select box
\* returns one of its options, whichever the user has chosen
SelectTicker(tickers, sel) ==
    IF tickers = <<>> THEN sel = None
    ELSE \E t \in Elems(tickers) : sel = Some(t)

\* lines 94-105: fetch the list, then settle the selection
Sidebar ==
    /\ pc = "sidebar"
    /\ \E resp \in {Failed, Answer(backend_tickers)} :
        LET r == fetch_tickers(resp) IN
        /\ all_tickers' = r.value
        /\ calls' = Append(calls, Call("GET /tickers", "", resp.ok, r.value))
        /\ messages' = messages \cup r.error
                        \cup (IF r.value = <<>> THEN {"No tickers available"} ELSE {})
        /\ SelectTicker(r.value, selected_ticker')
    /\ pc' = "add"
    /\ UNCHANGED <<backend_tickers, ticker_added, initial_load, widgets, locals, exception>>

\* lines 111-112 and 65-67: the add handler up to the validity check
AddTicker ==
    /\ pc = "add"
    /\ IF AddGuard(add_button, new_ticker)
       THEN \E outcome \in ProviderOutcomes :
              LET v == is_valid_ticker(outcome) IN
              /\ hist' = IF outcome.raised THEN None ELSE Some(outcome.rows)
              /\ valid' = Some(v)
              /\ calls' = Append(calls, Call("yf.history", new_ticker, ~outcome.raised, <<v>>))
              /\ IF InvalidGuard(v)
                 THEN /\ messages' = messages \cup {"Invalid ticker"}
                      /\ pc' = "main"
                 ELSE /\ messages' = messages
                      /\ pc' = "post_add"
       ELSE /\ pc' = "main"
            /\ UNCHANGED <<hist, valid, calls, messages>>
    /\ UNCHANGED <<backend_tickers, session, widgets, add_response, historical_data,
                   df_historical, predictions_data, chart, exception>>

\* lines 68-74 and 113-114: POST /add and what the handler makes of it
PostAdd ==
    /\ pc = "post_add"
    /\ \E applied \in BOOLEAN :
       \E resp \in {Failed} \cup (IF applied THEN {Answer(b) : b \in AddBodies} ELSE {}) :
        LET r == add_new_ticker_post(resp) IN
        /\ backend_tickers' = IF applied THEN BackendAdd(backend_tickers, new_ticker)
                              ELSE backend_tickers
        /\ add_response' = r.value
        /\ calls' = Append(calls, Call("POST /add", new_ticker, resp.ok, r.value))
        /\ IF Truthy(r.value)
           THEN /\ messages' = messages \cup r.error \cup {Get(r.value[1], "message")}
                /\ pc' = "refetch"
           ELSE /\ messages' = messages \cup r.error
                /\ pc' = "main"
    /\ UNCHANGED <<session, widgets, hist, valid, historical_data, df_historical,
                   predictions_data, chart, exception>>

\* the list updated by appending the new ticker locally, then the restart
Refetch_local_append ==
    /\ pc = "refetch"
    /\ all_tickers' = Append(all_tickers, new_ticker)
    /\ calls' = Append(calls, Call("rerun", "", TRUE, <<>>))
    /\ add_button' = FALSE
    /\ pc' = "sidebar"
    /\ FreshLocals
    /\ UNCHANGED <<backend_tickers, selected_ticker, ticker_added, initial_load, new_ticker>>

\* lines 116-120: fetch the list again and restart the script
Refetch ==
    /\ pc = "refetch"
    /\ \E resp \in {Failed, Answer(backend_tickers)} :
        LET r == fetch_tickers(resp) IN
        /\ all_tickers' = r.value
        /\ calls' = calls \o <<Call("GET /tickers", "", resp.ok, r.value),
                                Call("rerun", "", TRUE, <<>>)>>
    /\ add_button' = FALSE
    /\ pc' = "sidebar"
    /\ FreshLocals
    /\ UNCHANGED <<backend_tickers, selected_ticker, ticker_added, initial_load, new_ticker>>

\* lines 122-131 and 171-174: the historical fetch and the frame built from it
Main ==
    /\ pc = "main"
    /\ IF SelectedGuard(selected_ticker)
       THEN \E resp \in {Failed} \cup {Answer(b) : b \in HistBodies} :
              LET r == fetch_historical_data(resp) IN
              /\ historical_data' = r.value
              /\ calls' = Append(calls, Call("GET /historical_data", Str(selected_ticker),
                                             resp.ok, r.value))
              /\ IF HistGuard(r.value)
                 THEN IF HistBuildError(r.value[1]) = "none"
                      THEN /\ df_historical' = Some(BuildHistorical(r.value[1]))
                           /\ messages' = messages \cup r.error
                           /\ exception' = exception
                           /\ pc' = "fetch_pred"
                      ELSE /\ exception' = HistBuildError(r.value[1])
                           /\ messages' = messages \cup r.error
                           /\ df_historical' = df_historical
                           /\ pc' = "idle"
                 ELSE /\ messages' = messages \cup r.error \cup {"Could not retrieve data"}
                      /\ UNCHANGED <<df_historical, exception>>
                      /\ pc' = "idle"
       ELSE /\ pc' = "idle"
            /\ UNCHANGED <<historical_data, df_historical, messages, calls, exception>>
    /\ UNCHANGED <<backend_tickers, session, widgets, hist, valid, add_response,
                   predictions_data, chart>>

\* lines 133-170: the prediction fetch, the merge and the chart
Predict ==
    /\ pc = "fetch_pred"
    /\ \E resp \in {Failed} \cup {Answer(b) : b \in PredBodies} :
        LET r == fetch_predictions(resp) IN
        /\ predictions_data' = r.value
        /\ calls' = Append(calls, Call("POST /predict", Str(selected_ticker), resp.ok, r.value))
        /\ messages' = messages \cup r.error
        /\ IF PredGuard(r.value)
           THEN IF PredBuildError(r.value[1]) = "none"
                THEN /\ chart' = Some(BuildCombined(df_historical[1], r.value[1].predictions))
                     /\ exception' = exception
                ELSE /\ exception' = PredBuildError(r.value[1])
                     /\ chart' = chart
           ELSE /\ chart' = df_historical
                /\ exception' = exception
    /\ pc' = "idle"
    /\ UNCHANGED <<backend_tickers, session, widgets, hist, valid, add_response,
                   historical_data, df_historical>>

Next == Interact \/ Sidebar \/ AddTicker \/ PostAdd \/ Refetch \/ Main \/ Predict

Spec == Init /\ [][Next]_vars

(***************************************************************************)
(* Vocabulary of the properties.                                           *)
(***************************************************************************)
CallIdx == 1..Len(calls)

\* the index of the first call of the run in progress: the one after the
\* last restart, or the first of the log
RunStart ==
    LET marks == {i \in CallIdx : calls[i].op = "rerun"}
    IN  IF marks = {} THEN 1 ELSE 1 + (CHOOSE i \in marks : \A j \in marks : j <= i)

\* the calendar day after a date, and the n-th day after it
NextDay(s) ==
    IF s[3] < DaysInMonth(s[1], s[2]) THEN <<s[1], s[2], s[3] + 1>>
    ELSE IF s[2] < 12 THEN <<s[1], s[2] + 1, 1>>
    ELSE <<s[1] + 1, 1, 1>>

RECURSIVE DayAfter(_, _)
DayAfter(s, n) == IF n = 0 THEN s ELSE DayAfter(NextDay(s), n - 1)

\* the order of calendar dates, on the date strings themselves
DateLeq(a, b) ==
    \/ a[1] < b[1]
    \/ a[1] = b[1] /\ a[2] < b[2]
    \/ a[1] = b[1] /\ a[2] = b[2] /\ a[3] <= b[3]

MaxDate(ds) == CHOOSE x \in Elems(ds) : \A y \in Elems(ds) : DateLeq(y, x)

\* a frame shows, row for row, the dates and closes of a response body
ShowsSeries(frame, body) ==
    /\ Len(frame) >= Len(body.dates)
    /\ \A i \in 1..Len(body.dates) :
         /\ TimestampDate(frame[i].Date) = body.dates[i]
         /\ frame[i].Close = body.close[i]

\* the run ended with nothing to show for the selected ticker
NoData ==
    /\ pc = "idle"
    /\ exception = "none"
    /\ "Could not retrieve data" \in messages
    /\ df_historical = None
    /\ chart = None
    /\ \A i \in CallIdx : calls[i].op # "POST /predict"

\* the prediction fetch of this run returned and yielded nothing usable
NoPredictions ==
    /\ pc = "idle"
    /\ df_historical # None
    /\ \/ predictions_data = None
       \/ Get(predictions_data[1], "predictions") = <<>>

ExampleDates == << <<2024, 1, 1>>, <<2024, 1, 2>> >>
ExamplePreds == [i \in 1..PredDays |-> 102 + i]

(***************************************************************************)
(* C1: when the validity check of the candidate is false, add_new_ticker   *)
(* issues no POST /add, shows the "Invalid ticker" error and returns       *)
(* nothing; every POST /add directly follows a validity check of the same  *)
(* candidate that returned true.                                           *)
(***************************************************************************)
C1_NoAddWhenInvalid ==
    /\ valid = Some(FALSE) =>
         /\ \A i \in CallIdx : calls[i].op # "POST /add"
         /\ "Invalid ticker" \in messages
         /\ add_response = None
         /\ pc \in {"main", "fetch_pred", "idle"}
    /\ pc \in {"post_add", "refetch"} => valid = Some(TRUE)
    /\ \A i \in CallIdx : calls[i].op = "POST /add" =>
         /\ i > 1
         /\ calls[i - 1].op = "yf.history"
         /\ calls[i - 1].arg = calls[i].arg
         /\ calls[i - 1].ret = <<TRUE>>

C1_Witness ==
    /\ valid = Some(FALSE)
    /\ pc = "idle"
    /\ add_button
    /\ new_ticker = "MSFT"

(***************************************************************************)
(* C2: no exception escapes a run whatever the external calls return, and  *)
(* a malformed or empty historical response ends the run with the same "no *)
(* data" outcome as a transport failure.                                   *)
(***************************************************************************)
C2_NoExceptionEscapes ==
    /\ exception = "none"
    /\ (pc = "idle" /\ historical_data # None /\ historical_data[1] \in MalformedHist)
         => NoData

(***************************************************************************)
(* C3: a failed GET /tickers makes fetch_tickers report the error and      *)
(* return the empty list; the run goes on past the sidebar with no ticker  *)
(* selected.                                                               *)
(***************************************************************************)
C3_ListTickersNeverFails ==
    /\ \A i \in CallIdx : (calls[i].op = "GET /tickers" /\ ~calls[i].ok) =>
         calls[i].ret = <<>>
    /\ (pc = "add" /\ ~calls[Len(calls)].ok) =>
         /\ all_tickers = <<>>
         /\ selected_ticker = None
         /\ "Error fetching tickers" \in messages
         /\ exception = "none"

C3_Witness ==
    /\ pc = "add"
    /\ ~calls[Len(calls)].ok
    /\ backend_tickers # <<>>

(***************************************************************************)
(* C4: for a non-empty historical series and exactly 7 predictions the     *)
(* chart has len(hist)+7 points: the historical points in order, then the  *)
(* predictions in order, dated with the 7 calendar days that follow the    *)
(* latest historical date.  The dates 2024-01-01, 2024-01-02 with the      *)
(* predictions 103..109 give 9 points ending 2024-01-09 at 109.            *)
(***************************************************************************)
C4_CombinedSeries ==
    (/\ pc = "idle"
     /\ df_historical # None
     /\ predictions_data # None
     /\ Len(Get(predictions_data[1], "predictions")) = PredDays)
    =>
    LET body  == historical_data[1]
        preds == predictions_data[1].predictions
        n     == Len(body.dates)
    IN  /\ exception = "none"
        /\ chart # None
        /\ Len(chart[1]) = n + PredDays
        /\ ShowsSeries(chart[1], body)
        /\ \A i \in 1..PredDays :
             /\ chart[1][n + i].Close = preds[i]
             /\ TimestampDate(chart[1][n + i].Date) = DayAfter(MaxDate(body.dates), i)
        /\ (body.dates = ExampleDates /\ preds = ExamplePreds) =>
             /\ Len(chart[1]) = 9
             /\ TimestampDate(chart[1][9].Date) = <<2024, 1, 9>>
             /\ chart[1][9].Close = 109

C4_Witness ==
    /\ pc = "idle"
    /\ chart # None
    /\ Len(chart[1]) = MaxHist + PredDays
    /\ historical_data[1].dates[1] = <<2024, 2, 27>>
    /\ historical_data[1].dates[2] = <<2023, 12, 29>>
    /\ predictions_data[1].predictions[1] = 50

(***************************************************************************)
(* C5: when the historical series was fetched and the prediction fetch     *)
(* yields nothing, the chart is the historical series, point for point and *)
(* with nothing appended; the historical frame is the same after the merge *)
(* as before it.                                                            *)
(***************************************************************************)
C5_HistoricalOnly ==
    /\ NoPredictions =>
         /\ exception = "none"
         /\ chart # None
         /\ Len(chart[1]) = Len(historical_data[1].dates)
         /\ ShowsSeries(chart[1], historical_data[1])
    /\ (pc = "idle" /\ df_historical # None) =>
         /\ Len(df_historical[1]) = Len(historical_data[1].dates)
         /\ ShowsSeries(df_historical[1], historical_data[1])

C5_Witness ==
    /\ NoPredictions
    /\ predictions_data = Some(EmptyDict)
    /\ Len(chart[1]) = MaxHist

(***************************************************************************)
(* C6, as stated: fetch_historical_data returns absent for a response      *)
(* whose `dates` list is empty, never a present body with no dates.        *)
(***************************************************************************)
C6_ReturnsAbsent ==
    (historical_data # None /\ "dates" \in DOMAIN historical_data[1])
        => historical_data[1].dates # <<>>

(***************************************************************************)
(* C6, amended: fetch_historical_data returns the decoded body also when   *)
(* its `dates` list is empty; the guard of the run then treats it as no    *)
(* data, ending the run as a failed fetch does: the warning shown, no      *)
(* chart and no prediction request.                                        *)
(***************************************************************************)
C6_EmptyDatesNoData ==
    /\ (historical_data # None /\ Get(historical_data[1], "dates") = <<>>) => NoData
    /\ (\E i \in CallIdx : calls[i].op = "GET /historical_data" /\ ~calls[i].ok) =>
         /\ NoData
         /\ historical_data = None

C6_Witness ==
    /\ historical_data = Some([dates |-> <<>>, close |-> <<>>])
    /\ pc = "idle"

(***************************************************************************)
(* C7: is_valid_ticker returns true exactly when the provider returned at  *)
(* least one row; it returns false for zero rows and false when the        *)
(* provider raised, and no exception reaches the caller.                   *)
(***************************************************************************)
C7_ValidIffRows ==
    /\ valid # None =>
         /\ valid[1] <=> (hist # None /\ hist[1] >= 1)
         /\ pc \in {"main", "post_add"} => exception = "none"
    /\ \A i \in CallIdx : calls[i].op = "yf.history" =>
         /\ calls[i].ok \/ calls[i].ret = <<FALSE>>
         /\ i = Len(calls) => pc \in {"main", "post_add", "idle"}

C7_Witness ==
    /\ valid = Some(FALSE)
    /\ hist = None
    /\ pc = "main"

(***************************************************************************)
(* C8: in every run GET /historical_data is issued only after the run's    *)
(* ticker listing returned a non-empty list holding the requested ticker,  *)
(* and POST /predict only directly after the run's historical fetch        *)
(* succeeded with a non-empty `dates` list for the same ticker.            *)
(***************************************************************************)
C8_RenderOrder ==
    /\ \A i \in CallIdx : calls[i].op = "GET /historical_data" =>
         /\ i > RunStart
         /\ calls[RunStart].op = "GET /tickers"
         /\ calls[RunStart].ret # <<>>
         /\ calls[i].arg \in Elems(calls[RunStart].ret)
    /\ \A i \in CallIdx : calls[i].op = "POST /predict" =>
         /\ i > 1
         /\ calls[i - 1].op = "GET /historical_data"
         /\ calls[i - 1].ok
         /\ Get(calls[i - 1].ret[1], "dates") # <<>>
         /\ calls[i - 1].arg = calls[i].arg
    /\ pc \in {"add", "post_add", "refetch", "main"} =>
         /\ calls # <<>>
         /\ \A i \in RunStart..Len(calls) :
              calls[i].op \in {"GET /tickers", "yf.history", "POST /add"}
    /\ pc = "fetch_pred" => calls[Len(calls)].op = "GET /historical_data"

C8_Witness ==
    /\ pc = "idle"
    /\ Len(calls) = 8
    /\ calls[5].op = "rerun"
    /\ calls[8].op = "POST /predict"

(***************************************************************************)
(* C9: after an add the backend confirmed, the handler fetches the ticker  *)
(* list again, stores what that fetch returned and restarts the script;    *)
(* the list is never appended to locally, and a failed or rejected add     *)
(* leaves it as fetched at the top of the run.                             *)
(***************************************************************************)
C9_RefetchAfterAdd ==
    [][ /\ (pc = "post_add" /\ Truthy(add_response')) => pc' = "refetch"
        /\ pc = "refetch" =>
             LET n == Len(calls') IN
             /\ pc' = "sidebar"
             /\ calls'[n].op = "rerun"
             /\ calls'[n - 1].op = "GET /tickers"
             /\ calls'[n - 2].op = "POST /add"
             /\ all_tickers' = calls'[n - 1].ret
             /\ all_tickers' = IF calls'[n - 1].ok THEN backend_tickers' ELSE <<>>
        /\ (pc \in {"add", "post_add"} /\ pc' = "main") =>
             /\ all_tickers' = all_tickers
             /\ all_tickers' = calls'[RunStart].ret
      ]_vars

C9_Witness ==
    /\ pc = "idle"
    /\ \E i \in CallIdx : calls[i].op = "rerun"
    /\ Len(all_tickers) = 2
    /\ selected_ticker = Some(new_ticker)

(***************************************************************************)
(* C10: where a run reaches the main block, the selected ticker is none    *)
(* exactly when the list fetched at the top of that run is empty, and      *)
(* otherwise is a member of that list; every historical fetch asks for a   *)
(* member of the list fetched at the top of its run.                       *)
(***************************************************************************)
C10_SelectionFromFreshList ==
    /\ pc \in {"add", "post_add", "main"} =>
         /\ all_tickers = calls[RunStart].ret
         /\ selected_ticker = None <=> all_tickers = <<>>
         /\ selected_ticker # None => selected_ticker[1] \in Elems(all_tickers)
    /\ pc = "fetch_pred" =>
         /\ selected_ticker # None
         /\ selected_ticker[1] \in Elems(all_tickers)
         /\ calls[Len(calls)].arg = selected_ticker[1]
         /\ all_tickers = calls[RunStart].ret

C10_Witness ==
    /\ pc = "main"
    /\ all_tickers = <<>>
    /\ backend_tickers # <<>>
    /\ \E i \in CallIdx : calls[i].op = "rerun"

=============================================================================
